---- MODULE Spec2Model ----
(***************************************************************************)
(* A model of digest.py: the scan of a directory for files with allowed   *)
(* extensions, the sort of the files found, and the writing of the digest *)
(* (tree section, info line, one block per file).                         *)
(*                                                                         *)
(* Strings are sequences of one-character strings, so that suffix(),      *)
(* lower(), lstrip() and the comparison of strings are computed.          *)
(* What is written to the output is a sequence of chunks, one per         *)
(* outfile.write call: <<kind, text, data>>, where text is a string and   *)
(* data the content of a file (a sequence of chunks itself).              *)
(***************************************************************************)
EXTENDS Integers, Sequences, FiniteSets, TLC

\* ------------------------------------------------------------ bounds
\* Most entries a scanned directory holds.
MaxEntries == 3
\* Timestamps are 1..MaxTime.
MaxTime == 2
\* Most failures of the environment (a stat that fails during the sort, an
\* OSError of a write to the output) in one behaviour.
MaxFaults == 1

\* ------------------------------------------------------------ strings
\* The code point of each character the model uses (str comparison in
\* Python is by code point). "U+DCFF" is the lone surrogate os.fsdecode
\* gives for the byte 0xff of a file name that is not UTF-8.
CodePoint ==
  [c \in {".", "/", "B", "D", "M", "P", "T", "X", "Y", "a", "b", "c", "d", "g",
          "i", "k", "l", "m", "n", "o", "p", "r", "s", "t", "x", "y", "U+DCFF"} |->
     CASE c = "." -> 46 [] c = "/" -> 47 [] c = "B" -> 66 [] c = "D" -> 68
       [] c = "M" -> 77 [] c = "P" -> 80 [] c = "T" -> 84 [] c = "X" -> 88
       [] c = "Y" -> 89 [] c = "a" -> 97 [] c = "b" -> 98 [] c = "c" -> 99
       [] c = "d" -> 100 [] c = "g" -> 103 [] c = "i" -> 105 [] c = "k" -> 107
       [] c = "l" -> 108 [] c = "m" -> 109 [] c = "n" -> 110 [] c = "o" -> 111
       [] c = "p" -> 112 [] c = "r" -> 114 [] c = "s" -> 115 [] c = "t" -> 116
       [] c = "x" -> 120 [] c = "y" -> 121 [] c = "U+DCFF" -> 56575]

\* str.lower() on one character.
LowerChar(c) ==
  CASE c = "B" -> "b" [] c = "D" -> "d" [] c = "M" -> "m" [] c = "P" -> "p"
    [] c = "T" -> "t" [] c = "X" -> "x" [] c = "Y" -> "y" [] OTHER -> c

\* str.lower().
Lower(s) == [i \in 1..Len(s) |-> LowerChar(s[i])]

\* str.lstrip('.'): the string without its leading dots.
RECURSIVE LStripDots(_)
LStripDots(s) ==
  IF s # <<>> /\ Head(s) = "." THEN LStripDots(Tail(s)) ELSE s

\* a < b for two strings, as Python compares them: by code point, a proper
\* prefix first.
RECURSIVE StrLess(_, _)
StrLess(a, b) ==
  IF b = <<>> THEN FALSE
  ELSE IF a = <<>> THEN TRUE
  ELSE IF CodePoint[Head(a)] # CodePoint[Head(b)]
       THEN CodePoint[Head(a)] < CodePoint[Head(b)]
       ELSE StrLess(Tail(a), Tail(b))

\* str.rfind(c): the last index of c in s, 0 when there is none (Python's
\* index + 1).
RFind(s, c) ==
  IF \E i \in 1..Len(s) : s[i] = c
  THEN CHOOSE i \in 1..Len(s) : s[i] = c /\ \A j \in (i+1)..Len(s) : s[j] # c
  ELSE 0

\* PurePath.name: the last component of a path.
Name(p) == SubSeq(p, RFind(p, "/") + 1, Len(p))

\* PurePath.suffix: the name from its last dot on, or the empty string when
\* the name has no dot, starts with its only dot or ends with a dot.
Suffix(p) ==
  LET n == Name(p)
      i == RFind(n, ".")
  IN  IF 1 < i /\ i < Len(n) THEN SubSeq(n, i, Len(n)) ELSE <<>>

\* list reversal.
Reverse(s) == [i \in 1..Len(s) |-> s[Len(s) + 1 - i]]

\* The elements of a sequence.
Range(s) == {s[i] : i \in 1..Len(s)}

\* ------------------------------------------------------------ paths
\* The resolved input directory (target_dir), and the paths of the entries
\* below it, relative to it.
TargetDir == <<"/", "r">>
OtherDir == <<"/", "t">>

Amd == <<"a", ".", "m", "d">>
Bmd == <<"B", ".", "M", "D">>
Cpy == <<"s", "/", "c", ".", "p", "y">>
Png == <<"i", ".", "p", "n", "g">>
Lnk == <<"l", ".", "m", "d">>
Lck == <<"k", "/", "n", ".", "m", "d">>
Bad == <<"U+DCFF", ".", "m", "d">>
Big == <<"g", ".", "m", "d">>
Otxt == <<"o", ".", "t", "x", "t">>

\* The entries the directories scanned are drawn from.
Universe == {Amd, Bmd, Cpy, Png, Lnk, Lck, Bad}

\* What an entry is: a regular file, a broken symbolic link (is_file() is
\* False), or an entry of a directory without search permission (stat raises
\* PermissionError).
Kind(e) ==
  CASE e = Lnk -> "link" [] e = Lck -> "noaccess" [] OTHER -> "file"

\* What open() and read() of a regular file do: "ok", "ioerror" (no read
\* permission) or "other" (an exception that is no OSError, MemoryError for
\* one).
ReadResult(e) ==
  CASE e = Cpy -> "ioerror" [] e = Big -> "other" [] OTHER -> "ok"

\* The bytes of each file, as chunks: a line with its newline, text without
\* a newline, a byte that is not UTF-8.
InitialData(e) ==
  CASE e = Amd -> << <<"line", <<"a">>, <<>> >> >>
    [] e = Bmd -> << <<"line", <<"b">>, <<>> >>, <<"byte", <<"x">>, <<>> >> >>
    [] e = Bad -> << <<"text", <<"d">>, <<>> >> >>
    [] OTHER -> <<>>

\* Path(root) / filename.
Join(dir, rel) == dir \o <<"/">> \o rel

\* Whether path p lies below directory dir.
IsUnder(p, dir) ==
  /\ Len(p) > Len(dir) + 1
  /\ SubSeq(p, 1, Len(dir)) = dir
  /\ p[Len(dir) + 1] = "/"

\* PurePath.relative_to(base); it raises ValueError when p is not below
\* base, which is <<"ValueError">> here.
RelativeTo(p, base) ==
  IF IsUnder(p, base) THEN SubSeq(p, Len(base) + 2, Len(p)) ELSE <<"ValueError">>

\* Whether os.walk lists entry e in a subdirectory of the root.
InSubdir(e) == RFind(e, "/") > 0

\* ------------------------------------------------------------ main
\* main's normalisation of one --extensions argument.
NormalizeExtension(ext) == <<".">> \o Lower(LStripDots(ext))

\* main's normalized_extensions.
NormalizedExtensions(raw) == [i \in 1..Len(raw) |-> NormalizeExtension(raw[i])]

\* ------------------------------------------------------------ scan
\* The test of find_text_files: suffix.lower() in extensions.
SuffixMatchesCaseSensitive(p, extensions) == Suffix(p) \in Range(extensions)

SuffixMatches(p, extensions) == Lower(Suffix(p)) \in Range(extensions)

\* What the scan does with one entry: "append", "skip" (the suffix is not
\* allowed), "nonfile" (is_file() is False) or "oserror" (stat raises).
ScanOutcome(e, extensions) ==
  IF ~SuffixMatches(Join(TargetDir, e), extensions) THEN "skip"
  ELSE IF Kind(e) = "noaccess" THEN "oserror"
  ELSE IF Kind(e) = "link" THEN "nonfile"
  ELSE "append"

\* ------------------------------------------------------------ sort
\* The key function of get_sort_key_function, on the file system files:
\* <<TRUE, key>>, or <<FALSE, 0>> when stat raises (the file is gone).
StatKey(p, by, files) ==
  LET e == RelativeTo(p, TargetDir)
  IN  IF e \notin DOMAIN files THEN <<FALSE, 0>>
      ELSE IF by = "ctime" THEN <<TRUE, files[e].ctime>>
      ELSE <<TRUE, files[e].mtime>>

\* k1 < k2 for two keys of the sort: numbers for ctime and mtime, strings
\* for name.
KeyLess(by, k1, k2) == IF by = "name" THEN StrLess(k1, k2) ELSE k1 < k2

\* One step of a stable insertion: x goes behind every element whose key
\* is not greater than its own.
RECURSIVE Insert(_, _, _, _)
Insert(x, s, key, by) ==
  IF s = <<>> THEN <<x>>
  ELSE IF KeyLess(by, key[x], key[Head(s)]) THEN <<x>> \o s
  ELSE <<Head(s)>> \o Insert(x, Tail(s), key, by)

\* A stable ascending sort of list by key.
RECURSIVE StableSort(_, _, _)
StableSort(list, key, by) ==
  IF list = <<>> THEN <<>>
  ELSE Insert(list[Len(list)], StableSort(SubSeq(list, 1, Len(list) - 1), key, by), key, by)

\* list.sort(key=..., reverse=...) with every key computed: CPython
\* reverses the list, sorts it ascending and stable, and reverses the
\* result, so that equal elements keep their order in both directions.
ListSortIgnoringReverse(list, key, by, rev) == StableSort(list, key, by)

ListSortReversingForward(list, key, by, rev) ==
  IF rev THEN Reverse(StableSort(list, key, by)) ELSE StableSort(list, key, by)

ListSort(list, key, by, rev) ==
  IF rev THEN Reverse(StableSort(Reverse(list), key, by))
  ELSE StableSort(list, key, by)

\* The keys of the files of list: str(p) for name, the stat result else.
NameKeys(list) == [p \in Range(list) |-> p]

TimeKeys(list, by, files) == [p \in Range(list) |-> StatKey(p, by, files)[2]]

\* Whether computing the key raises for some file of list.
KeyRaises(list, by, files) ==
  by # "name" /\ \E p \in Range(list) : ~StatKey(p, by, files)[1]

\* The fallback of find_text_files: found_files.sort(key=str, reverse=reverse).
FallbackSortUnsorted(list, rev) == list

FallbackSort(list, rev) == ListSort(list, NameKeys(list), "name", rev)

\* The list find_text_files returns for the scanned list: sorted by the
\* key, or, when a key raises (the list is then left as it was), by name.
SortedFiles(list, by, rev, files) ==
  IF KeyRaises(list, by, files) THEN FallbackSort(list, rev)
  ELSE IF by = "name" THEN ListSort(list, NameKeys(list), "name", rev)
  ELSE ListSort(list, TimeKeys(list, by, files), by, rev)

\* ------------------------------------------------------------ state
VARIABLES
  args,         \* the command line: [raw_extensions, sort_by, reverse, output]
  extensions,   \* normalized_extensions of main
  files,        \* the entries below target_dir: entry -> [data, ctime, mtime]
  pc,           \* where the run is
  listing,      \* the entries in the order os.walk lists them in this run
  walked,       \* how many of them the scan has seen
  found_files,  \* found_files of find_text_files and of create_digest
  tree_tool,    \* what the tree command does on this machine
  tree_structure, \* tree_structure of create_digest
  idx,          \* the turn of the loop of write_file_contents
  scanned,      \* found_files as the scan left it (while in find_text_files)
  fellBack,     \* whether the sort fell back to the sort by name
  out,          \* the chunks written to outfile so far
  log,          \* the lines printed: <<stream, message, path>>
  status,       \* the exit status, -1 while the run goes on
  faults,       \* the failures of the environment so far
  trace,        \* the steps of the run, in order
  second,       \* whether this is the second run in a row
  prev,         \* the digest the first run wrote
  snap          \* the content each scanned file had when it was scanned

vars == <<args, extensions, files, pc, listing, walked, found_files, tree_tool,
          tree_structure, idx, scanned, fellBack, out, log, status, faults, trace,
          second, prev, snap>>

\* ------------------------------------------------------------ inputs
\* The --extensions arguments the runs are given.
ExtensionArgs ==
  { << <<"m", "d">>, <<".", "P", "Y">>, <<".", ".", "t", "x", "t">> >>,
    << <<".", "M", "D">>, <<"p", "n", "g">> >> }

SortKeys == {"name", "ctime", "mtime"}

\* The directories scanned: every set of at most MaxEntries entries.
Directories == {d \in SUBSET Universe : Cardinality(d) <= MaxEntries}

\* The output path of the run: inside the scanned directory or not.
OutputPath(a) ==
  IF a.output = "inside" THEN Join(TargetDir, Otxt) ELSE Join(OtherDir, Otxt)

\* The file system of directory d with the timestamps ct and mt.
FileSystem(d, ct, mt) ==
  [e \in d |-> [data |-> InitialData(e), ctime |-> ct[e], mtime |-> mt[e]]]

\* The timestamps of directory d that a sort by `by` can tell apart: those
\* of the attribute it reads, of the files the scan appends; the others are 1.
Timestamps(d, by, attr, exts) ==
  {t \in [d -> 1..MaxTime] :
     \A e \in d : (by # attr \/ ScanOutcome(e, exts) # "append") => t[e] = 1}

\* The orders os.walk can list the entries of directory d in: the files of
\* the root before those of its subdirectories, in any order within them.
WalkOrders(d) ==
  {s \in [1..Cardinality(d) -> d] :
     /\ \A i, j \in 1..Cardinality(d) : i # j => s[i] # s[j]
     /\ \A i, j \in 1..Cardinality(d) : (i < j /\ InSubdir(s[i])) => InSubdir(s[j])}

\* The state of a run before main, with the given arguments and files.
Start(a, fs, order, exts, tool) ==
  /\ args = a
  /\ tree_tool = tool
  /\ tree_structure = <<>>
  /\ idx = 0
  /\ files = fs
  /\ listing = order
  /\ extensions = exts
  /\ walked = 0
  /\ found_files = <<>>
  /\ scanned = <<>>
  /\ fellBack = FALSE
  /\ out = <<>>
  /\ log = <<>>
  /\ status = -1
  /\ faults = 0
  /\ trace = <<>>
  /\ second = FALSE
  /\ prev = <<>>
  /\ snap = <<>>

\* ------------------------------------------------------------ find_text_files
\* One turn of the loops over os.walk: the next entry listed is appended,
\* skipped, or skipped with a warning.
ScanEntry ==
  /\ pc = "scan"
  /\ walked < Len(listing)
  /\ walked' = walked + 1
  /\ LET e == listing[walked + 1]
         p == Join(TargetDir, e)
         o == ScanOutcome(e, extensions)
     IN  /\ found_files' = IF o = "append" THEN Append(found_files, p) ELSE found_files
         /\ snap' = IF o = "append" THEN Append(snap, <<p, files[e].data>>) ELSE snap
         /\ log' = CASE o = "nonfile" -> Append(log, <<"stderr", "Skipping non-file entry", p>>)
                     [] o = "oserror" -> Append(log, <<"stderr", "Could not access or stat file", p>>)
                     [] OTHER -> log
  /\ UNCHANGED <<args, extensions, files, pc, listing, tree_tool, tree_structure, idx, scanned, fellBack, out, status,
                 faults, trace, second, prev>>

\* The rest of find_text_files once os.walk is through: an empty list is
\* returned as it is; else the list is sorted by the key, or by name when a
\* key raises. Files of `gone` vanish between the scan and the sort (their
\* stat raises).
SortFound ==
  /\ pc = "scan"
  /\ walked = Len(listing)
  /\ \E gone \in SUBSET {RelativeTo(p, TargetDir) : p \in Range(found_files)} :
       /\ Cardinality(gone) <= MaxFaults - faults
       /\ gone # {} => args.sort_by # "name"
       /\ LET fs == [e \in DOMAIN files \ gone |-> files[e]]
              raises == found_files # <<>> /\ KeyRaises(found_files, args.sort_by, fs)
          IN  /\ files' = fs
              /\ faults' = faults + Cardinality(gone)
              /\ scanned' = found_files
              /\ fellBack' = raises
              /\ found_files' =
                   IF found_files = <<>> THEN <<>>
                   ELSE SortedFiles(found_files, args.sort_by, args.reverse, fs)
              /\ log' =
                   IF found_files = <<>> THEN log
                   ELSE IF raises
                   THEN log \o << <<"stderr", "Error during sorting", <<>> >>,
                                  <<"stdout", "Falling back to sorting by name.", <<>> >> >>
                   ELSE Append(log, <<"stdout", "Files sorted by", <<>> >>)
  /\ pc' = "sorted"
  /\ UNCHANGED <<args, extensions, listing, walked, tree_tool, tree_structure, idx,
                 out, status, trace, second, prev, snap>>

\* return found_files: the frame of find_text_files is gone.
ReturnFound ==
  /\ pc = "sorted"
  /\ pc' = "found"
  /\ scanned' = <<>>
  /\ fellBack' = FALSE
  /\ walked' = 0
  /\ trace' = Append(trace, <<"found", <<>> >>)
  /\ UNCHANGED <<args, extensions, files, listing, found_files, tree_tool,
                 tree_structure, idx, out, log, status, faults,
                 second, prev, snap>>

\* Calls of find_text_files on every directory, extension list, key and
\* direction of the bounds.
InitFind ==
  /\ pc = "scan"
  /\ \E raw \in ExtensionArgs, by \in SortKeys, rev \in BOOLEAN, d \in Directories :
       \E ct \in Timestamps(d, by, "ctime", NormalizedExtensions(raw)),
          mt \in Timestamps(d, by, "mtime", NormalizedExtensions(raw)),
          order \in WalkOrders(d) :
         Start([raw_extensions |-> raw, sort_by |-> by, reverse |-> rev,
                output |-> "outside"], FileSystem(d, ct, mt), order,
               NormalizedExtensions(raw), "ok")

NextFind == ScanEntry \/ SortFound \/ ReturnFound

SpecFind == InitFind /\ [][NextFind]_vars

\* ------------------------------------------------------------ chunks
\* What outfile.write is called with.
Sep == <<"sep", <<>>, <<>> >>
Heading == <<"Directory structure:", <<>>, <<>> >>
NL == <<"nl", <<>>, <<>> >>
NL2 == <<"nl2", <<>>, <<>> >>
NoFiles == <<"No files matching the specified extensions were found.", <<>>, <<>> >>
FileHeader(display) == <<"File:", display, <<>> >>
ContentChunk(content) == <<"content", <<>>, content>>
ReadError(display) == <<"[Error: Could not read file]", display, <<>> >>
UnexpectedError(display) ==
  <<"[Error: An unexpected error occurred reading file]", display, <<>> >>

\* ", ".join(list).
RECURSIVE JoinComma(_)
JoinComma(list) ==
  IF list = <<>> THEN <<>>
  ELSE IF Len(list) = 1 THEN list[1]
  ELSE list[1] \o <<",", " ">> \o JoinComma(Tail(list))

\* get_digest_info.
DigestInfo(exts, by, rev) ==
  <<"Included extensions:", JoinComma(exts),
    << <<IF rev THEN "Output below is sorted in reverse by "
         ELSE "Output below is sorted by ", <<>>, <<>> >>,
       <<CASE by = "name" -> "filename."
           [] by = "ctime" -> "creation time."
           [] by = "mtime" -> "time last modified."
           [] OTHER -> "", <<>>, <<>> >> >> >>

\* What get_tree_output returns: the listing of the entries below the
\* directory when tree exits with 0, else one of three messages.
TreeOutput(tool, fs) ==
  LET names == CHOOSE q \in WalkOrders(DOMAIN fs) : TRUE
      sorted == StableSort(names, [e \in DOMAIN fs |-> e], "name")
  IN  CASE tool = "ok" ->
             <<"tree", TargetDir, [i \in 1..Len(sorted) |-> <<"entry", sorted[i], <<>> >>]>>
        [] tool = "nonzero" ->
             <<"[Could not generate tree view. 'tree' command failed.]", <<>>, <<>> >>
        [] tool = "notfound" ->
             <<"[Could not generate tree view. 'tree' command not found.]", <<>>, <<>> >>
        [] OTHER ->
             <<"[An unexpected error occurred while running 'tree']", <<>>, <<>> >>

\* What get_tree_output prints to stderr.
TreeLog(tool) ==
  CASE tool = "ok" -> <<>>
    [] tool = "nonzero" -> << <<"stderr", "Warning: 'tree' command failed.", <<>> >>,
                              <<"stderr", "Tree command error output", <<>> >> >>
    [] tool = "notfound" -> << <<"stderr", "'tree' command not found", <<>> >> >>
    [] OTHER -> << <<"stderr", "Warning: unexpected error running 'tree'", <<>> >> >>

\* Whether TextIOWrapper.write can encode the text as UTF-8: it holds no
\* surrogate (U+D800 to U+DFFF).
Encodable(text) ==
  \A i \in 1..Len(text) : CodePoint[text[i]] < 55296 \/ CodePoint[text[i]] > 57343

\* read() with errors="replace": a byte that is not UTF-8 becomes U+FFFD.
Decode(data) ==
  [i \in 1..Len(data) |->
     IF data[i][1] = "byte" THEN <<"text", <<"U+FFFD">>, <<>> >> ELSE data[i]]

\* content.endswith("\n").
RECURSIVE EndsWithNewline(_)
EndsWithNewline(content) ==
  IF content = <<>> THEN FALSE
  ELSE LET last == content[Len(content)]
       IN  IF last[1] = "content"
           THEN IF last[3] = <<>>
                THEN EndsWithNewline(SubSeq(content, 1, Len(content) - 1))
                ELSE EndsWithNewline(last[3])
           ELSE last[1] \notin {"text", "byte", "tree", "Included extensions:",
                                "[Could not generate tree view. 'tree' command failed.]",
                                "[Could not generate tree view. 'tree' command not found.]",
                                "[An unexpected error occurred while running 'tree']"}

\* ------------------------------------------------------------ write_file_contents
\* The file of turn i of the loop over files.
FileAtFromEnd(list, i) == list[Len(list) + 1 - i]

FileAt(list, i) == list[i]

\* The first k for which stop[k] holds, 0 when there is none.
FirstOf(n, stop) ==
  IF \E k \in 1..n : stop[k]
  THEN CHOOSE k \in 1..n : stop[k] /\ \A j \in 1..(k - 1) : ~stop[j]
  ELSE 0

\* An except clause of the inner try: it writes the placeholder (write 7 of
\* the turn) and prints a warning; when that write raises, the outer except
\* prints its line instead.
Handler(pre, placeholder, warning, p, fail, raisedBefore) ==
  IF 7 \in fail
  THEN [chunks |-> pre,
        logs |-> << <<"stderr", "Error processing file entry", p>> >>,
        raised |-> raisedBefore \cup {7}]
  ELSE [chunks |-> Append(pre, placeholder),
        logs |-> << <<"stderr", warning, p>> >>,
        raised |-> raisedBefore]

\* One turn of the loop of write_file_contents for file p: the chunks it
\* writes, the lines it prints, and the writes that raised OSError. The
\* writes of a turn are numbered 1 to 7; those of `fail` raise OSError.
\* `read` is what open and read do ("ok", "ioerror", "other") and data the
\* bytes read.
Block(p, fail, read, data) ==
  LET rel == RelativeTo(p, TargetDir)
      display == <<"/">> \o rel
      header == <<Sep, FileHeader(display), Sep>>
      hstop == FirstOf(3, [k \in 1..3 |-> k \in fail \/ (k = 2 /\ ~Encodable(display))])
      content == Decode(data)
      body == <<ContentChunk(content)>>
              \o (IF content # <<>> /\ ~EndsWithNewline(content) THEN <<NL>> ELSE <<>>)
              \o <<NL>>
      bstop == FirstOf(Len(body), [k \in 1..Len(body) |-> (3 + k) \in fail])
  IN  IF rel = <<"ValueError">>
      THEN [chunks |-> <<>>,
            logs |-> << <<"stderr", "Error processing file entry", p>> >>,
            raised |-> {}]
      ELSE IF hstop > 0
      THEN [chunks |-> SubSeq(header, 1, hstop - 1),
            logs |-> << <<"stderr", "Error processing file entry", p>> >>,
            raised |-> {hstop} \cap fail]
      ELSE IF read = "ioerror"
      THEN Handler(header, ReadError(display), "Warning: Could not read file", p, fail, {})
      ELSE IF read = "other"
      THEN Handler(header, UnexpectedError(display),
                   "Warning: An unexpected error occurred reading file", p, fail, {})
      ELSE IF bstop > 0
      THEN Handler(header \o SubSeq(body, 1, bstop - 1), ReadError(display),
                   "Warning: Could not read file", p, fail, {3 + bstop})
      ELSE [chunks |-> header \o body, logs |-> <<>>, raised |-> {}]

\* ------------------------------------------------------------ the run
\* The trace with one more step.
Step(event, p) == Append(trace, <<event, p>>)

\* Whether the output file lies in the scanned directory.
OutputInside == IsUnder(OutputPath(args), TargetDir)

\* The files once the output file holds data (open truncates it, close
\* flushes what was written).
WithOutput(fs, data) ==
  IF OutputInside
  THEN [e \in DOMAIN fs \cup {RelativeTo(OutputPath(args), TargetDir)} |->
          IF e = RelativeTo(OutputPath(args), TargetDir)
          THEN [data |-> data, ctime |-> MaxTime, mtime |-> MaxTime]
          ELSE fs[e]]
  ELSE fs

\* main: the extensions are normalized and create_digest is called.
Main ==
  /\ pc = "main"
  /\ extensions' = NormalizedExtensions(args.raw_extensions)
  /\ pc' = "check"
  /\ trace' = Step("main", <<>>)
  /\ UNCHANGED <<args, files, listing, walked, found_files, tree_tool, tree_structure,
                 idx, scanned, fellBack, out, log, status, faults, second, prev, snap>>

\* create_digest: the input directory is a directory, or the run ends with
\* status 1. A directory that is missing holds no entries.
CheckDirectory ==
  /\ pc = "check"
  /\ \/ /\ pc' = "mkdir"
        /\ UNCHANGED <<log, status, trace>>
     \/ /\ listing = <<>>
        /\ ~second
        /\ log' = Append(log, <<"stderr", "Error: Input directory not found or is not a directory", <<>> >>)
        /\ trace' = Step("dir_invalid", <<>>)
        /\ status' = 1
        /\ pc' = "exit"
  /\ UNCHANGED <<args, extensions, files, listing, walked, found_files, tree_tool,
                 tree_structure, idx, scanned, fellBack, out, faults, second, prev, snap>>

\* create_digest: the parent of the output path is made, or mkdir raises
\* OSError and the run ends with status 1.
MakeOutputDirectory ==
  /\ pc = "mkdir"
  /\ \/ /\ pc' = "scan"
        /\ UNCHANGED <<log, status, trace>>
     \/ /\ ~OutputInside
        /\ log' = Append(log, <<"stderr", "Error: Could not create output directory", <<>> >>)
        /\ trace' = Step("mkdir_failed", <<>>)
        /\ status' = 1
        /\ pc' = "exit"
  /\ UNCHANGED <<args, extensions, files, listing, walked, found_files, tree_tool,
                 tree_structure, idx, scanned, fellBack, out, faults, second, prev, snap>>

\* open(output_path, "w"): the file is created or truncated, or open raises
\* OSError and the run ends with status 1.
OpenOutput ==
  /\ pc = "found"
  /\ \/ /\ files' = WithOutput(files, <<>>)
        /\ out' = <<>>
        /\ trace' = Step("open", <<>>)
        /\ pc' = "heading"
        /\ log' = Append(log, <<"stdout", "Writing digest to", <<>> >>)
        /\ UNCHANGED status
     \/ /\ log' = log \o << <<"stdout", "Writing digest to", <<>> >>,
                            <<"stderr", "Error: Could not write to output file", <<>> >> >>
        /\ trace' = Step("open_failed", <<>>)
        /\ status' = 1
        /\ pc' = "exit"
        /\ UNCHANGED <<files, out>>
  /\ UNCHANGED <<args, extensions, listing, walked, found_files, tree_tool,
                 tree_structure, idx, scanned, fellBack, faults, second, prev, snap>>

\* Some outfile.write calls of create_digest in a row: all are done, or one
\* raises OSError, the with statement closes the file and the run ends with
\* status 1.
WriteChunks(chunks, event, next) ==
  \/ /\ out' = out \o chunks
     /\ trace' = Step(event, <<>>)
     /\ pc' = next
     /\ UNCHANGED <<files, log, status, faults>>
  \/ \E k \in 1..Len(chunks) :
       /\ faults < MaxFaults
       /\ faults' = faults + 1
       /\ out' = out \o SubSeq(chunks, 1, k - 1)
       /\ files' = WithOutput(files, out')
       /\ trace' = Step("write_failed", <<>>)
       /\ log' = Append(log, <<"stderr", "Error: Could not write to output file", <<>> >>)
       /\ status' = 1
       /\ pc' = "exit"

\* The statement of the with block of create_digest that follows `step`.
AfterTreeLast(step) ==
  CASE step = "heading" -> "info"
    [] step = "info" -> "tree"
    [] step = "tree" -> "tree_running"
    [] step = "tree_running" -> "write_tree"
    [] step = "write_tree" -> "contents"
    [] OTHER -> "close"

After(step) ==
  CASE step = "heading" -> "tree"
    [] step = "tree" -> "tree_running"
    [] step = "tree_running" -> "write_tree"
    [] step = "write_tree" -> "info"
    [] step = "info" -> "contents"
    [] OTHER -> "close"

\* outfile.write("Directory structure:\n").
WriteHeading ==
  /\ pc = "heading"
  /\ WriteChunks(<<Heading>>, "heading", After("heading"))
  /\ UNCHANGED <<args, extensions, listing, walked, found_files, tree_tool,
                 tree_structure, idx, scanned, fellBack, second, prev, snap>>

\* get_tree_output: subprocess.run starts the tree command.
TreeStart ==
  /\ pc = "tree"
  /\ pc' = After("tree")
  /\ trace' = Step("tree_start", <<>>)
  /\ UNCHANGED <<args, extensions, files, listing, walked, found_files, tree_tool,
                 tree_structure, idx, scanned, fellBack, out, log, status, faults,
                 second, prev, snap>>

\* get_tree_output: subprocess.run returns (or raises) once the command has
\* ended, and the listing or a message is returned.
TreeEnd ==
  /\ pc = "tree_running"
  /\ tree_structure' = TreeOutput(tree_tool, files)
  /\ log' = log \o TreeLog(tree_tool)
  /\ pc' = After("tree_running")
  /\ trace' = Step("tree_end", <<>>)
  /\ UNCHANGED <<args, extensions, files, listing, walked, found_files, tree_tool,
                 idx, scanned, fellBack, out, status, faults, second, prev, snap>>

\* outfile.write(tree_structure); outfile.write("\n").
WriteTree ==
  /\ pc = "write_tree"
  /\ WriteChunks(<<tree_structure, NL>>, "write_tree", After("write_tree"))
  /\ UNCHANGED <<args, extensions, listing, walked, found_files, tree_tool,
                 tree_structure, idx, scanned, fellBack, second, prev, snap>>

\* outfile.write(digest_info); outfile.write("\n\n").
WriteInfo ==
  /\ pc = "info"
  /\ WriteChunks(<<DigestInfo(extensions, args.sort_by, args.reverse), NL2>>,
                 "write_info", After("info"))
  /\ UNCHANGED <<args, extensions, listing, walked, found_files, tree_tool,
                 tree_structure, idx, scanned, fellBack, second, prev, snap>>

\* if found_files: write_file_contents is entered.
EnterContents ==
  /\ pc = "contents"
  /\ found_files # <<>>
  /\ idx' = 1
  /\ pc' = "files"
  /\ UNCHANGED <<args, extensions, files, listing, walked, found_files, tree_tool,
                 tree_structure, scanned, fellBack, out, log, status, faults, trace,
                 second, prev, snap>>

\* else: the block that says that no file was found.
WriteNoFiles ==
  /\ pc = "contents"
  /\ found_files = <<>>
  /\ WriteChunks(<<Sep, NoFiles, Sep>>, "write_nofiles", After("contents"))
  /\ UNCHANGED <<args, extensions, listing, walked, found_files, tree_tool,
                 tree_structure, idx, scanned, fellBack, second, prev, snap>>

\* One turn of the loop of write_file_contents. The output file itself, when
\* it is among the files, holds what has been flushed of the chunks written
\* so far: any number of them.
WriteFileBlock ==
  /\ pc = "files"
  /\ LET p == FileAt(found_files, idx)
         e == RelativeTo(p, TargetDir)
         self == OutputInside /\ p = OutputPath(args)
     IN  \E fail \in SUBSET (1..7), flushed \in 0..(Len(out) + 3) :
           /\ Cardinality(fail) <= MaxFaults - faults
           /\ ~self => flushed = 0
           /\ LET read == IF e \notin DOMAIN files THEN "ioerror"
                          ELSE IF self THEN "ok"
                          ELSE ReadResult(e)
                  data == IF e \notin DOMAIN files THEN <<>>
                          ELSE IF self
                          THEN SubSeq(out \o <<Sep, FileHeader(<<"/">> \o e), Sep>>, 1, flushed)
                          ELSE files[e].data
                  b == Block(p, fail, read, data)
              IN  /\ b.raised = fail
                  /\ out' = out \o b.chunks
                  /\ log' = log \o b.logs
                  /\ faults' = faults + Cardinality(fail)
                  /\ trace' = trace \o << <<"block", p>> >>
                                \o (IF fail # {} THEN << <<"write_raised", p>> >> ELSE <<>>)
                                \o (IF b.logs # <<>> THEN << <<"block_error", p>> >> ELSE <<>>)
  /\ idx' = idx + 1
  /\ pc' = IF idx = Len(found_files) THEN After("contents") ELSE "files"
  /\ UNCHANGED <<args, extensions, files, listing, walked, found_files, tree_tool,
                 tree_structure, scanned, fellBack, status, second, prev, snap>>

\* The end of the with block: the file is flushed and closed, or the flush
\* raises OSError and the run ends with status 1.
CloseOutput ==
  /\ pc = "close"
  /\ \/ /\ files' = WithOutput(files, out)
        /\ trace' = Step("close", <<>>)
        /\ pc' = "closed"
        /\ UNCHANGED <<log, status, faults>>
     \/ /\ faults < MaxFaults
        /\ faults' = faults + 1
        /\ trace' = Step("close_failed", <<>>)
        /\ log' = Append(log, <<"stderr", "Error: Could not write to output file", <<>> >>)
        /\ status' = 1
        /\ pc' = "exit"
        /\ UNCHANGED files
  /\ UNCHANGED <<args, extensions, listing, walked, found_files, tree_tool,
                 tree_structure, idx, scanned, fellBack, out, second, prev, snap>>

\* print("Digest file created successfully."); main returns: status 0.
Finish ==
  /\ pc = "closed"
  /\ log' = Append(log, <<"stdout", "Digest file created successfully.", <<>> >>)
  /\ status' = 0
  /\ pc' = "exit"
  /\ UNCHANGED <<args, extensions, files, listing, walked, found_files, tree_tool,
                 tree_structure, idx, scanned, fellBack, out, faults, trace, second,
                 prev, snap>>

\* The orders os.walk can list the entries in in a second run: the entries
\* of the first run keep their order, and the new one is among those of
\* the root.
SecondOrders(order, fs) ==
  {s \in WalkOrders(DOMAIN fs) :
     \A i, j \in 1..Len(s) :
       (i < j /\ s[i] \in Range(order) /\ s[j] \in Range(order))
         => \E a, b \in 1..Len(order) : a < b /\ order[a] = s[i] /\ order[b] = s[j]}

\* The same command is run again after a run that ended with status 0 and
\* met no failure of the environment.
Rerun ==
  /\ pc = "exit"
  /\ status = 0
  /\ faults = 0
  /\ ~second
  /\ second' = TRUE
  /\ prev' = out
  /\ \E order \in SecondOrders(listing, files) : listing' = order
  /\ pc' = "main"
  /\ extensions' = <<>>
  /\ found_files' = <<>>
  /\ tree_structure' = <<>>
  /\ idx' = 0
  /\ out' = <<>>
  /\ log' = <<>>
  /\ status' = -1
  /\ trace' = <<>>
  /\ snap' = <<>>
  /\ UNCHANGED <<args, files, walked, tree_tool, scanned, fellBack, faults>>

\* ------------------------------------------------------------ specification
\* The command lines of the runs.
RunArgs ==
  [raw_extensions : {<< <<"m", "d">>, <<".", "P", "Y">>, <<".", ".", "t", "x", "t">> >>},
   sort_by : SortKeys, reverse : BOOLEAN, output : {"inside", "outside"}]

\* The entries the directories of the runs hold.
RunUniverse == {Amd, Bmd, Cpy, Bad, Big, Png}

MaxRunEntries == 2

RunDirectories == {d \in SUBSET RunUniverse : Cardinality(d) <= MaxRunEntries}

TreeTools == {"ok", "nonzero", "notfound", "exception"}

Init ==
  /\ pc = "main"
  /\ \E a \in RunArgs, d \in RunDirectories, tool \in TreeTools :
       \E order \in WalkOrders(d) :
         Start(a, FileSystem(d, [e \in d |-> 1], [e \in d |-> 1]), order, <<>>, tool)

Next ==
  \/ Main \/ CheckDirectory \/ MakeOutputDirectory
  \/ ScanEntry \/ SortFound \/ ReturnFound
  \/ OpenOutput \/ WriteHeading \/ TreeStart \/ TreeEnd \/ WriteTree \/ WriteInfo
  \/ EnterContents \/ WriteNoFiles \/ WriteFileBlock \/ CloseOutput \/ Finish

\* One run of the command.
Spec == Init /\ [][Next]_vars

NextTwice == Next \/ Rerun

\* Two runs of the same command in a row.
SpecTwice == Init /\ [][NextTwice]_vars

\* ------------------------------------------------------------ claims on find_text_files
\* The position of x in the sequence s (x occurs in it).
IndexOf(s, x) == CHOOSE i \in 1..Len(s) : s[i] = x

\* Whether file p has an allowed suffix, by the arguments of the run.
Allowed(p) ==
  Lower(Suffix(p)) \in {<<".">> \o Lower(LStripDots(x)) : x \in Range(args.raw_extensions)}

\* The entries the walk listed, as paths.
ListedPaths == {Join(TargetDir, e) : e \in Range(listing)}

\* C2 as stated: the list returned holds exactly the files below the
\* directory (broken links apart) whose lowercased suffix is allowed.
C2_EveryMatchingFileReturned ==
  pc = "sorted" =>
    Range(found_files) =
      {p \in ListedPaths : Allowed(p) /\ Kind(RelativeTo(p, TargetDir)) # "link"}

\* C2 as amended: the list returned holds only files whose lowercased suffix
\* is allowed, and holds, once each, every listed entry with an allowed
\* suffix that is a regular file whose stat succeeds.
C2_ScanSelectsAccessibleFiles ==
  pc = "sorted" =>
    /\ \A p \in Range(scanned) : Allowed(p)
    /\ Range(scanned) =
         {p \in ListedPaths : Allowed(p) /\ Kind(RelativeTo(p, TargetDir)) = "file"}
    /\ Cardinality(Range(scanned)) = Len(scanned)
    /\ Range(found_files) = Range(scanned)
    /\ Len(found_files) = Len(scanned)

\* A scan that kept a file with an upper-case suffix and left out a file
\* with another suffix and one whose stat raises.
C2_Witness ==
  /\ pc = "sorted"
  /\ Join(TargetDir, Bmd) \in Range(found_files)
  /\ \E e \in Range(listing) : ~Allowed(Join(TargetDir, e))
  /\ Lck \in Range(listing) /\ Allowed(Join(TargetDir, Lck))

\* The key value the sort compared file p by (a number for ctime and mtime).
TimeOf(p) ==
  LET e == RelativeTo(p, TargetDir)
  IN  IF args.sort_by = "ctime" THEN files[e].ctime ELSE files[e].mtime

\* Whether the sort compared the files by their names: the key is name, or
\* a stat failed.
ByName ==
  \/ args.sort_by = "name"
  \/ \E p \in Range(scanned) : RelativeTo(p, TargetDir) \notin DOMAIN files

\* Whether files p and q have the same key value in the sort that was done.
SameKey(p, q) == IF ByName THEN p = q ELSE TimeOf(p) = TimeOf(q)

\* What find_text_files returns for the same scan in the other direction,
\* and in this one.
OtherDirection == SortedFiles(scanned, args.sort_by, ~args.reverse, files)

\* C3 as stated: the order with reverse=True is the order with
\* reverse=False read back to front, ties included.
C3_ReverseIsMirror ==
  (pc = "sorted" /\ scanned # <<>>) => found_files = Reverse(OtherDirection)

\* C3 as amended: when no two scanned files have the same key value, the
\* order with reverse=True is the order with reverse=False read back to
\* front.
C3_ReverseIsMirrorWithoutTies ==
  (/\ pc = "sorted"
   /\ scanned # <<>>
   /\ \A p, q \in Range(scanned) : SameKey(p, q) => p = q)
    => found_files = Reverse(OtherDirection)

\* A descending sort by ctime of three files with three ctimes, or of two
\* with two.
C3_Witness ==
  /\ pc = "sorted"
  /\ args.reverse
  /\ args.sort_by = "ctime"
  /\ ~ByName
  /\ Len(scanned) >= 2
  /\ \A p, q \in Range(scanned) : SameKey(p, q) => p = q
  /\ found_files # scanned

\* C4: the sort is stable in both directions: two files with the same key
\* value are returned in the order the walk listed them in.
C4_SortIsStable ==
  pc = "sorted" =>
    \A i, j \in 1..Len(found_files) :
      (i < j /\ SameKey(found_files[i], found_files[j]))
        => IndexOf(scanned, found_files[i]) < IndexOf(scanned, found_files[j])

\* A descending sort by a timestamp that two of three files share: the two
\* are in the order of the walk, and the third has moved.
C4_Witness ==
  /\ pc = "sorted"
  /\ args.reverse
  /\ ~ByName
  /\ Len(found_files) = 3
  /\ found_files # scanned
  /\ \E i \in 1..2 :
       /\ TimeOf(found_files[i]) = TimeOf(found_files[i + 1])
       /\ IndexOf(scanned, found_files[i]) < IndexOf(scanned, found_files[i + 1])

\* Whether a stat failed during a sort by ctime or mtime.
StatFailedInSort ==
  /\ pc = "sorted"
  /\ args.sort_by # "name"
  /\ \E p \in Range(scanned) : RelativeTo(p, TargetDir) \notin DOMAIN files

\* C5: when a stat fails during a sort by ctime or mtime, every scanned
\* file is returned once, in the order of the full path names in the
\* direction asked for, and the fallback is reported.
C5_FallbackSortsAllByName ==
  StatFailedInSort =>
    /\ Len(found_files) = Len(scanned)
    /\ Range(found_files) = Range(scanned)
    /\ \A i, j \in 1..Len(found_files) :
         i < j => IF args.reverse THEN StrLess(found_files[j], found_files[i])
                  ELSE StrLess(found_files[i], found_files[j])
    /\ \E k \in 1..Len(log) : log[k][2] = "Falling back to sorting by name."
    /\ \E k \in 1..Len(log) : log[k][1] = "stderr" /\ log[k][2] = "Error during sorting"

\* A fallback on three files listed in an order that is not the order of
\* their names, with the failing file listed last, and one with it first.
C5_Witness ==
  /\ StatFailedInSort
  /\ Len(scanned) = 3
  /\ found_files # scanned
  /\ found_files # Reverse(scanned)
  /\ RelativeTo(scanned[3], TargetDir) \notin DOMAIN files

\* ------------------------------------------------------------ claims on the run
\* The steps of the trace named name.
StepsNamed(names) == {i \in 1..Len(trace) : trace[i][1] \in names}

\* Whether a step named a precedes step i of the trace.
Preceded(i, a) == \E j \in 1..(i - 1) : trace[j][1] = a

\* The path a block of the digest names file p by.
Display(p) == <<"/">> \o RelativeTo(p, TargetDir)

\* The kinds of the placeholder chunks.
Placeholders ==
  {"[Error: Could not read file]", "[Error: An unexpected error occurred reading file]"}

\* Where the file blocks of the digest start: a separator, a "File:" header
\* and a separator in a row.
BlockStarts ==
  {i \in 1..(Len(out) - 3) : out[i] = Sep /\ out[i + 1][1] = "File:" /\ out[i + 2] = Sep}

\* Whether the block that starts at chunk i is the block of file p, with
\* its content or a placeholder.
IsBlockOf(i, p) ==
  /\ out[i + 1] = FileHeader(Display(p))
  /\ \/ /\ out[i + 3][1] = "content"
        /\ (p # OutputPath(args) /\ RelativeTo(p, TargetDir) \in DOMAIN files)
             => out[i + 3][3] = Decode(files[RelativeTo(p, TargetDir)].data)
     \/ out[i + 3][1] \in Placeholders /\ out[i + 3][2] = Display(p)

\* C1 as stated: a digest written to its end holds one "Directory
\* structure:" heading and one block for each file found, with the content
\* of the file or a placeholder.
C1_OneBlockPerFile ==
  (pc = "exit" /\ status = 0) =>
    /\ Cardinality({i \in 1..Len(out) : out[i] = Heading}) = 1
    /\ Cardinality(BlockStarts) = Len(found_files)
    /\ \A k \in 1..Len(found_files) : \E i \in BlockStarts : IsBlockOf(i, found_files[k])

\* C6 as stated: every error raised in a turn of the loop leaves a
\* placeholder in the output and a line on stderr.
C6_EveryErrorLeavesPlaceholder ==
  \A i \in StepsNamed({"block_error"}) :
    /\ \E k \in 1..Len(out) :
         out[k][1] \in Placeholders /\ out[k][2] = Display(trace[i][2])
    /\ \E k \in 1..Len(log) : log[k][1] = "stderr" /\ log[k][3] = trace[i][2]

\* C7 as stated: the run ends with status 1 exactly when the input directory
\* is no directory or the output directory or file cannot be made or written,
\* and with status 0 only once the output is closed.
C7_ExitStatus ==
  pc = "exit" =>
    /\ status = 1 <=>
         StepsNamed({"dir_invalid", "mkdir_failed", "open_failed", "write_failed",
                     "write_raised", "close_failed"}) # {}
    /\ status = 0 =>
         /\ StepsNamed({"close"}) # {}
         /\ \E k \in 1..Len(log) : log[k][2] = "Digest file created successfully."

\* C8 as stated: the tree command has ended before the output is opened
\* or written to.
C8_TreeEndsBeforeOutput ==
  \A i \in StepsNamed({"open", "heading", "write_tree", "write_info", "write_nofiles",
                       "block", "write_failed"}) : Preceded(i, "tree_end")

\* C8 as amended: the output is opened and the heading written before the
\* tree command starts; nothing is written while it runs, and it has ended
\* before anything but the heading is written.
C8_TreeEndsBeforeAllButHeading ==
  /\ \A i \in StepsNamed({"write_tree", "write_info", "write_nofiles", "block"}) :
       Preceded(i, "tree_end")
  /\ \A i \in StepsNamed({"tree_start"}) : Preceded(i, "open") /\ Preceded(i, "heading")
  /\ \A i \in StepsNamed({"tree_end"}) : Preceded(i, "tree_start")
  /\ Len(out) > 1 => StepsNamed({"tree_end"}) # {}
  /\ pc = "tree_running" => out = <<Heading>>

\* A run to its end whose digest holds the tree section and two blocks.
C8_Witness ==
  /\ pc = "exit"
  /\ status = 0
  /\ StepsNamed({"tree_end"}) # {}
  /\ Cardinality(StepsNamed({"block"})) = 2
  /\ Len(out) > 4

\* The steps of the trace that are turns of the loop over the files.
BlockSteps == SelectSeq(trace, LAMBDA t : t[1] = "block")

\* The "File:" headers of the digest, in order.
Headers == SelectSeq(out, LAMBDA c : c[1] = "File:")

\* C9: scan and sort end before the output is opened; the tree section is
\* written before the info line, the info line before the file blocks; the
\* blocks are written in the order of the list find_text_files returned; the
\* output is closed after the last block.
C9_StepsInOrder ==
  /\ \A i \in StepsNamed({"open", "open_failed"}) : Preceded(i, "found")
  /\ \A i \in StepsNamed({"write_info"}) : Preceded(i, "write_tree")
  /\ \A i \in StepsNamed({"write_tree"}) : Preceded(i, "heading")
  /\ \A i \in StepsNamed({"block", "write_nofiles"}) : Preceded(i, "write_info")
  /\ Len(BlockSteps) <= Len(found_files)
  /\ \A k \in 1..Len(BlockSteps) : BlockSteps[k][2] = found_files[k]
  /\ \A a, b \in 1..Len(Headers) :
       a < b => \E i, j \in 1..Len(found_files) :
                  /\ i < j
                  /\ Headers[a] = FileHeader(Display(found_files[i]))
                  /\ Headers[b] = FileHeader(Display(found_files[j]))
  /\ \A i \in StepsNamed({"close"}) :
       /\ Len(BlockSteps) = Len(found_files)
       /\ \A j \in StepsNamed({"block", "write_nofiles", "write_info"}) : j < i

\* A run sorted by name, ascending, on a directory listed in another order:
\* the block of /a.md is before the block of /g.md.
C9_Witness ==
  /\ pc = "exit"
  /\ status = 0
  /\ args.sort_by = "name" /\ ~args.reverse
  /\ listing = <<Big, Amd>>
  /\ Headers = <<FileHeader(<<"/">> \o Amd), FileHeader(<<"/">> \o Big)>>

\* C10 as stated: a second run of the same command, on a tree that only the
\* first run has touched and with no failure of the environment, writes the
\* digest the first run wrote, and each block holds the content its file
\* had when it was scanned.
C10_SecondRunWritesSameDigest ==
  (pc = "exit" /\ second /\ status = 0 /\ faults = 0) =>
    /\ out = prev
    /\ \A k \in 1..Len(snap) : \A i \in BlockStarts :
         (out[i + 1] = FileHeader(Display(snap[k][1])) /\ out[i + 3][1] = "content")
           => out[i + 3][3] = Decode(snap[k][2])

====
